---- MODULE Spec2Model ----
(***************************************************************************)
(* Model of dashboard/app/data_loader.py: the filename timestamp parser,   *)
(* the record extractor, the parallel file loader, the Parquet cache       *)
(* store, the dataset loader load_all_data (sequential and with two        *)
(* concurrent invocations), its st.cache_data memoization wrapper, and     *)
(* aggregate_to_intervals.                                                 *)
(***************************************************************************)
EXTENDS Integers, Sequences, FiniteSets, TLC

VARIABLES
    dirExists,   \* DATA_DIR exists
    files,       \* content of every speedtest-*.json name in DATA_DIR
    cache,       \* the Parquet cache file at _get_cache_path()
    pre,         \* the cache file as the last load_all_data call found it
    ret,         \* what the last load_all_data call did and returned
    filename,    \* argument of parse_timestamp_from_filename
    parsed_ts,   \* what the call returned
    REFRESH_INTERVAL_SECONDS,  \* the configured refresh interval
    clock,       \* seconds since the dashboard started
    memo,        \* st.cache_data's entry for load_all_data
    runs,        \* when the body of load_all_data ran last, and before that
    df_in,       \* the dataset given to aggregate_to_intervals
    interval_minutes,  \* its interval width
    agg,         \* what aggregate_to_intervals returned
    procs,       \* the concurrent invocations of load_all_data: position and locals
    invocations  \* how many invocations have started

envVars == <<dirExists, files, cache>>
loaderVars == <<dirExists, files, cache, pre, ret>>
parseVars == <<filename, parsed_ts>>
memoVars == <<REFRESH_INTERVAL_SECONDS, clock, memo, runs>>
aggVars == <<df_in, interval_minutes, agg>>
vars == <<dirExists, files, cache, pre, ret, filename, parsed_ts,
          REFRESH_INTERVAL_SECONDS, clock, memo, runs,
          df_in, interval_minutes, agg, procs, invocations>>
concVars == <<procs, invocations>>

\* Python's None where a timestamp is expected (Optional[datetime]).
None == <<>>

----------------------------------------------------------------------------
(* Strings as sequences of one-character strings.                          *)

DigitChars == <<"0", "1", "2", "3", "4", "5", "6", "7", "8", "9">>
Digits == {DigitChars[i] : i \in 1..10}
DigitVal(c) == (CHOOSE i \in 1..10 : DigitChars[i] = c) - 1
TwoDigits(n) == <<DigitChars[(n \div 10) + 1], DigitChars[(n % 10) + 1]>>

RECURSIVE IntOf(_)
IntOf(s) == IF s = <<>> THEN 0
            ELSE 10 * IntOf(SubSeq(s, 1, Len(s) - 1)) + DigitVal(s[Len(s)])

\* The regular expression of line 79, one atom per character; "\\d" is the
\* digit class, every other atom a literal character.
D == "\\d"
pattern ==
    <<"s", "p", "e", "e", "d", "t", "e", "s", "t", "-">>
    \o <<D, D, D, D, "-", D, D, "-", D, D, "T">>
    \o <<D, D, "-", D, D, "-", D, D, "-", D, D, D, "Z">>
    \o <<".", "j", "s", "o", "n">>

time_pattern == <<D, D, "-", D, D, "-", D, D, "-", D, D, D, "Z">>

\* re.match: the pattern must match at the start of the string; what
\* follows the match is not looked at.
re_match(pat, s) ==
    /\ Len(s) >= Len(pat)
    /\ \A i \in 1..Len(pat) :
          IF pat[i] = D THEN s[i] \in Digits ELSE s[i] = pat[i]

\* str.split(sep) for a one-character separator.
RECURSIVE split(_, _)
split(s, sep) ==
    IF \A i \in 1..Len(s) : s[i] # sep THEN <<s>>
    ELSE LET k == CHOOSE i \in 1..Len(s) :
                     s[i] = sep /\ \A j \in 1..(i - 1) : s[j] # sep
         IN  <<SubSeq(s, 1, k - 1)>> \o split(SubSeq(s, k + 1, Len(s)), sep)

IsLeap(y) == (y % 4 = 0 /\ y % 100 # 0) \/ y % 400 = 0
DaysInMonth(y, m) ==
    IF m = 2 THEN (IF IsLeap(y) THEN 29 ELSE 28)
    ELSE IF m \in {4, 6, 9, 11} THEN 30 ELSE 31

\* datetime.fromisoformat on "YYYY-MM-DDTHH:MM:SS.mmm+00:00": the instant as
\* <<year, month, day, hour, minute, second, millisecond>>, or ValueError.
ValueError == <<"ValueError">>
fromisoformat(date_part, hour, minute, second, ms) ==
    LET y  == IntOf(SubSeq(date_part, 1, 4))
        mo == IntOf(SubSeq(date_part, 6, 7))
        d  == IntOf(SubSeq(date_part, 9, 10))
        h  == IntOf(hour)
        mi == IntOf(minute)
        s  == IntOf(second)
    IN  IF /\ y \in 1..9999
           /\ mo \in 1..12
           /\ d \in 1..DaysInMonth(y, mo)
           /\ h \in 0..23
           /\ mi \in 0..59
           /\ s \in 0..59
        THEN <<y, mo, d, h, mi, s, IntOf(ms)>>
        ELSE ValueError

parse_timestamp_from_filename(name) ==
    IF ~re_match(pattern, name) THEN None
    ELSE LET timestamp_str == SubSeq(name, 11, 34)
             parts == split(timestamp_str, "T")
         IN  IF Len(parts) # 2 THEN None
             ELSE LET date_part == parts[1]
                      time_part == parts[2]
                  IN  IF ~re_match(time_pattern, time_part) THEN None
                      ELSE LET t == fromisoformat(date_part,
                                        SubSeq(time_part, 1, 2),
                                        SubSeq(time_part, 4, 5),
                                        SubSeq(time_part, 7, 8),
                                        SubSeq(time_part, 10, 12))
                           IN  IF t = ValueError THEN None ELSE t

----------------------------------------------------------------------------
(* The data directory.  A file is named by its index i; its name is        *)
(* FileName(i).  Every name matches the glob speedtest-*.json of line 198. *)

NumFiles == 3
Names == 1..NumFiles

\* speedtest-2024-01-15T<25-i>-30-00-000Z.json: name 1 carries hour 24, which
\* no datetime has; the other names decode, later names to earlier instants.
FileName(i) ==
    <<"s", "p", "e", "e", "d", "t", "e", "s", "t", "-">>
    \o <<"2", "0", "2", "4", "-", "0", "1", "-", "1", "5", "T">>
    \o TwoDigits(25 - i)
    \o <<"-", "3", "0", "-", "0", "0", "-", "0", "0", "0", "Z">>
    \o <<".", "j", "s", "o", "n">>

\* parse_timestamp_from_filename(filepath.name) for every name of the directory.
FileTimestamp == [n \in Names |-> parse_timestamp_from_filename(FileName(n))]

\* What open() + json.load() make of a file.
Missing == [text |-> "missing", success |-> FALSE, result |-> FALSE,
            sessionID |-> "", download |-> 0]
Undecodable == [Missing EXCEPT !.text = "undecodable"]  \* bytes that are not text
InvalidJson == [Missing EXCEPT !.text = "invalidjson"]  \* text that is not JSON
NonObject == [Missing EXCEPT !.text = "array"]          \* JSON, but a list
Object(success, result, sessionID, download) ==
    [text |-> "object", success |-> success, result |-> result,
     sessionID |-> sessionID, download |-> download]
Payloads == {<<"s1", 50000000>>, <<"s2", 20000000>>}
Unsuccessful == Object(FALSE, TRUE, "s1", 50000000)      \* "success": false
NoResult == Object(TRUE, FALSE, "s1", 50000000)          \* no "result" key
\* The contents written under name n: a successful measurement with either
\* payload, one content that is rejected and one that is not text or not an
\* object; which ones rotates with the name.
Rejected == <<InvalidJson, Unsuccessful, NoResult>>
Broken == <<NonObject, Undecodable>>
ContentsOf(n) ==
    {Object(TRUE, TRUE, p[1], p[2]) : p \in Payloads}
    \cup {Rejected[(n % 3) + 1], Broken[(n % 2) + 1]}

\* METRICS["download"]["convert"]
convert_download(x) == x \div 1000000

Columns == {"timestamp", "source_file", "sessionID", "download"}
NoRow == [c \in {} |-> 0]
Returns(record) == [tag |-> "return", exc |-> "", record |-> record]
Raises(exc) == [tag |-> "raise", exc |-> exc, record |-> NoRow]

\* load_single_file: Returns(record), Returns(NoRow) for Python's None, or the
\* exception that the except clause of line 143 does not catch.
load_single_file(fp, content) ==
    IF content.text = "missing" THEN Returns(NoRow)             \* OSError
    ELSE IF content.text = "undecodable" THEN Raises("UnicodeDecodeError")
    ELSE IF content.text = "invalidjson" THEN Returns(NoRow)    \* JSONDecodeError
    ELSE IF content.text = "array" THEN Raises("AttributeError") \* list.get
    ELSE IF ~content.success THEN Returns(NoRow)
    ELSE IF ~content.result THEN Returns(NoRow)
    ELSE LET timestamp == FileTimestamp[fp]
         IN  IF timestamp = None THEN Returns(NoRow)
             ELSE Returns([c \in Columns |->
                     CASE c = "timestamp" -> timestamp
                       [] c = "source_file" -> fp
                       [] c = "sessionID" -> content.sessionID
                       [] c = "download" -> convert_download(content.download)])

----------------------------------------------------------------------------
(* pandas frames: the set of columns and the sequence of rows.             *)

Range(seq) == {seq[i] : i \in 1..Len(seq)}

EmptyFrame == [columns |-> {}, rows |-> <<>>]           \* pd.DataFrame()
DataFrame(records) == [columns |-> Columns, rows |-> records]
empty(df) == Len(df.rows) = 0
concat(a, b) == [columns |-> a.columns \cup b.columns, rows |-> a.rows \o b.rows]
drop(df, column) ==
    [columns |-> df.columns \ {column},
     rows |-> [i \in 1..Len(df.rows) |->
                 [c \in (DOMAIN df.rows[i]) \ {column} |-> df.rows[i][c]]]]

\* Order of two instants <<year, ..., millisecond>>.
RECURSIVE TsLeq(_, _)
TsLeq(a, b) ==
    IF a = <<>> THEN TRUE
    ELSE IF Head(a) # Head(b) THEN Head(a) < Head(b)
    ELSE TsLeq(Tail(a), Tail(b))

RECURSIVE InsertSorted(_, _)
InsertSorted(row, rows) ==
    IF rows = <<>> THEN <<row>>
    ELSE IF TsLeq(rows[Len(rows)].timestamp, row.timestamp)
         THEN Append(rows, row)
         ELSE Append(InsertSorted(row, SubSeq(rows, 1, Len(rows) - 1)),
                     rows[Len(rows)])

RECURSIVE SortRows(_)
SortRows(rows) ==
    IF rows = <<>> THEN <<>>
    ELSE InsertSorted(rows[Len(rows)], SortRows(SubSeq(rows, 1, Len(rows) - 1)))

\* The frame as it is, not sorted.
sort_values_skipped(df) == df
\* df.sort_values("timestamp", ascending=True)
sort_values(df) == [columns |-> df.columns, rows |-> SortRows(df.rows)]

----------------------------------------------------------------------------
(* The cache store.                                                        *)

Absent == [kind |-> "absent", frame |-> EmptyFrame]
Corrupt == [kind |-> "corrupt", frame |-> EmptyFrame]
Parquet(df) == [kind |-> "parquet", frame |-> df]

\* _load_cache: found = FALSE is Python's None.
_load_cache(cache_file) ==
    IF cache_file.kind = "absent" THEN [found |-> FALSE, df |-> EmptyFrame]
    ELSE IF cache_file.kind = "corrupt" THEN [found |-> FALSE, df |-> EmptyFrame]
    ELSE [found |-> TRUE, df |-> cache_file.frame]

\* How df.to_parquet ends: the file is written; it raises before the file is
\* touched; it raises after the file was truncated.  _save_cache swallows both.
SaveOutcomes == {"written", "failed", "truncated"}
_save_cache(df, cache_file, outcome) ==
    IF outcome = "written" THEN Parquet(df)
    ELSE IF outcome = "failed" THEN cache_file
    ELSE Corrupt

----------------------------------------------------------------------------
(* The parallel file loader.  filepaths is the sequence of names in the    *)
(* order in which as_completed yields their futures; contents are read     *)
(* from dir_files.                                                         *)

RECURSIVE _load_json_files_parallel(_, _)
_load_json_files_parallel(filepaths, dir_files) ==
    IF filepaths = <<>> THEN [tag |-> "return", exc |-> "", records |-> <<>>]
    ELSE LET fp == Head(filepaths)
             one == load_single_file(fp, dir_files[fp])
             rest == _load_json_files_parallel(Tail(filepaths), dir_files)
         IN  IF one.tag = "raise"
             THEN [tag |-> "raise", exc |-> one.exc, records |-> <<>>]
             ELSE IF rest.tag = "raise" THEN rest
             ELSE IF one.record = NoRow THEN rest
             ELSE [rest EXCEPT !.records = <<one.record>> \o @]

\* The orders in which the futures of the submitted files can complete.
CompletionOrders(submitted) ==
    {o \in [1..Cardinality(submitted) -> submitted] :
        \A i, j \in 1..Cardinality(submitted) : i # j => o[i] # o[j]}

----------------------------------------------------------------------------
(* The dataset loader.                                                     *)

\* data_path.glob("speedtest-*.json"), as the set of names found
all_json_files(dir_files) == {n \in Names : dir_files[n] # Missing}
\* set(cached_df["source_file"].unique())
cached_files(cached_df) ==
    {cached_df.rows[i].source_file : i \in 1..Len(cached_df.rows)}
\* Every file counted as new, whatever the cache names.
new_files_ignoring_cache(all_names, cached_names) == all_names
\* lines 208-210
new_files(all_names, cached_names) == {name \in all_names : name \notin cached_names}

Finished(outcome, path, exc, result, files_parsed, to_save) ==
    [outcome |-> outcome, path |-> path, exc |-> exc, result |-> result,
     parsed |-> files_parsed, save_called |-> to_save # EmptyFrame, df |-> to_save]

\* lines 236-241: df is handed to _save_cache, the return value lacks source_file
SortSaveReturn(df, path, files_parsed) ==
    LET sorted == sort_values(df)
    IN  Finished("returned", path, "", drop(sorted, "source_file"), files_parsed, sorted)

\* The files load_all_data hands to _load_json_files_parallel (lines 219, 229).
Submitted(dir_exists, dir_files, cache_file) ==
    LET cached == _load_cache(cache_file)
    IN  IF ~dir_exists THEN {}
        ELSE IF cached.found /\ ~empty(cached.df)
        THEN IF "source_file" \notin cached.df.columns THEN {}
             ELSE new_files(all_json_files(dir_files), cached_files(cached.df))
        ELSE all_json_files(dir_files)

\* The body of load_all_data, lines 191-241, up to the effect of _save_cache
\* (df is the frame it is called with).  order is the order in which the
\* futures complete.
load_all_data(dir_exists, dir_files, cache_file, order) ==
    IF ~dir_exists
    THEN Finished("returned", "nodir", "", EmptyFrame, {}, EmptyFrame)
    ELSE IF all_json_files(dir_files) = {}
    THEN Finished("returned", "nofiles", "", EmptyFrame, {}, EmptyFrame)
    ELSE
    LET all_names == all_json_files(dir_files)
        cached == _load_cache(cache_file)
        cached_df == cached.df
    IN  IF cached.found /\ ~empty(cached_df)
        THEN IF "source_file" \notin cached_df.columns
             THEN Finished("raised", "cached", "KeyError", EmptyFrame, {}, EmptyFrame)
             ELSE
             LET new == new_files(all_names, cached_files(cached_df))
                 loaded == _load_json_files_parallel(order, dir_files)
             IN  IF new = {}
                 THEN Finished("returned", "uptodate", "",
                               sort_values(drop(cached_df, "source_file")),
                               {}, EmptyFrame)
                 ELSE IF loaded.tag = "raise"
                 THEN Finished("raised", "merged", loaded.exc, EmptyFrame, new,
                               EmptyFrame)
                 ELSE SortSaveReturn(
                         IF loaded.records # <<>>
                         THEN concat(cached_df, DataFrame(loaded.records))
                         ELSE cached_df,
                         "merged", new)
        ELSE
        LET loaded == _load_json_files_parallel(order, dir_files)
        IN  IF loaded.tag = "raise"
            THEN Finished("raised", "cold", loaded.exc, EmptyFrame, all_names,
                          EmptyFrame)
            ELSE IF loaded.records = <<>>
            THEN Finished("returned", "coldempty", "", EmptyFrame, all_names,
                          EmptyFrame)
            ELSE SortSaveReturn(DataFrame(loaded.records), "cold", all_names)

----------------------------------------------------------------------------
(* State machine of the loader: the environment writes the directory and   *)
(* the temp directory, the dashboard calls load_all_data.                  *)

NoFiles == [n \in Names |-> Missing]
NoCall == [outcome |-> "none", path |-> "none", exc |-> "", result |-> EmptyFrame,
           parsed |-> {}, save |-> "none",
           prevOutcome |-> "none", prevResult |-> EmptyFrame]

\* A cache file left by a program that did not track source_file.
LegacyFrame ==
    drop(DataFrame(<<load_single_file(2, Object(TRUE, TRUE, "s1", 50000000)).record>>),
         "source_file")
ZeroRowFrame == [columns |-> Columns, rows |-> <<>>]

InitLoader ==
    /\ dirExists = FALSE
    /\ files = NoFiles
    /\ cache = Absent
    /\ pre = Absent
    /\ ret = NoCall

\* A change of the directory or of the temp directory ends the observation
\* of the last call: while ret.outcome # "none", the directory is as that
\* call found it and the cache is as it left it.
Forget == pre' = Absent /\ ret' = NoCall

CreateDir ==
    /\ ~dirExists
    /\ dirExists' = TRUE
    /\ Forget
    /\ UNCHANGED <<files, cache, parseVars, memoVars, aggVars, concVars>>

RemoveDir ==
    /\ dirExists
    /\ dirExists' = FALSE
    /\ files' = NoFiles
    /\ Forget
    /\ UNCHANGED <<cache, parseVars, memoVars, aggVars, concVars>>

AddFile(n, content) ==
    /\ dirExists
    /\ files[n] = Missing
    /\ files' = [files EXCEPT ![n] = content]
    /\ Forget
    /\ UNCHANGED <<dirExists, cache, parseVars, memoVars, aggVars, concVars>>

ModifyFile(n, content) ==
    /\ dirExists
    /\ files[n] # Missing
    /\ files[n] # content
    /\ files' = [files EXCEPT ![n] = content]
    /\ Forget
    /\ UNCHANGED <<dirExists, cache, parseVars, memoVars, aggVars, concVars>>

DeleteFile(n) ==
    /\ dirExists
    /\ files[n] # Missing
    /\ files' = [files EXCEPT ![n] = Missing]
    /\ Forget
    /\ UNCHANGED <<dirExists, cache, parseVars, memoVars, aggVars, concVars>>

\* The temp directory is cleaned, the cache file is damaged, or another
\* program version leaves its cache there.
CacheLost ==
    /\ cache # Absent
    /\ cache' = Absent
    /\ Forget
    /\ UNCHANGED <<dirExists, files, parseVars, memoVars, aggVars, concVars>>

CacheDamaged ==
    /\ cache.kind = "parquet"
    /\ cache' = Corrupt
    /\ Forget
    /\ UNCHANGED <<dirExists, files, parseVars, memoVars, aggVars, concVars>>

CacheForeign(df) ==
    /\ cache # Parquet(df)
    /\ cache' = Parquet(df)
    /\ Forget
    /\ UNCHANGED <<dirExists, files, parseVars, memoVars, aggVars, concVars>>

\* One run of the body of load_all_data on the directory and the cache file.
RunBody(order) ==
    \E done \in {load_all_data(dirExists, files, cache, order)} :
        \E save_outcome \in IF done.save_called THEN SaveOutcomes ELSE {"none"} :
        /\ pre' = cache
        /\ ret' = [outcome |-> done.outcome, path |-> done.path, exc |-> done.exc,
                   result |-> done.result, parsed |-> done.parsed,
                   save |-> save_outcome,
                   prevOutcome |-> ret.outcome, prevResult |-> ret.result]
        /\ cache' = IF done.save_called
                    THEN _save_cache(done.df, cache, save_outcome)
                    ELSE cache
        /\ UNCHANGED <<dirExists, files>>

LoadAllData(order) == RunBody(order) /\ UNCHANGED <<parseVars, memoVars, aggVars, concVars>>

ParseIdle == filename = <<>> /\ parsed_ts = [done |-> FALSE, value |-> None]
NoEntry == [stored |-> FALSE, at |-> 0, value |-> EmptyFrame]
NoRuns == [count |-> 0, last |-> 0, before |-> 0]
MemoIdle ==
    /\ REFRESH_INTERVAL_SECONDS = 60
    /\ clock = 0
    /\ memo = NoEntry
    /\ runs = NoRuns

\* The two concurrent invocations.
Procs == {1, 2}
Idle == [pc |-> "idle", outcome |-> "none", all_json_files |-> {},
         cached_df |-> EmptyFrame, submitted |-> {}, records |-> <<>>,
         df |-> EmptyFrame, result |-> EmptyFrame, overlapped |-> FALSE]
ConcIdle ==
    /\ procs = [p \in Procs |-> Idle]
    /\ invocations = 0

AggIdle ==
    /\ df_in = EmptyFrame
    /\ interval_minutes = 10
    /\ agg = [done |-> FALSE, df |-> EmptyFrame]

Init == InitLoader /\ ParseIdle /\ MemoIdle /\ AggIdle /\ ConcIdle

Next ==
    \/ CreateDir
    \/ RemoveDir
    \/ \E n \in Names : \E content \in ContentsOf(n) : AddFile(n, content)
    \/ \E n \in Names : \E content \in ContentsOf(n) : ModifyFile(n, content)
    \/ \E n \in Names : DeleteFile(n)
    \/ CacheLost
    \/ CacheDamaged
    \/ \E df \in {LegacyFrame, ZeroRowFrame} : CacheForeign(df)
    \/ \E order \in CompletionOrders(Submitted(dirExists, files, cache)) :
          LoadAllData(order)

Spec == Init /\ [][Next]_vars

----------------------------------------------------------------------------
(* Concurrent invocations of load_all_data (no lock is taken anywhere in   *)
(* lines 183-241): each invocation scans the directory, reads the cache,   *)
(* parses, and writes the cache, and these steps interleave with those of  *)
(* the other invocation and with files being added and deleted.            *)

MaxInvocations == 3

Others == <<pre, ret, parseVars, memoVars, aggVars>>
Ends(local, outcome, result) ==
    [local EXCEPT !.pc = "done", !.outcome = outcome, !.result = result]

\* lines 191-200
Scan(p) ==
    /\ procs[p].pc = "idle"
    /\ invocations < MaxInvocations
    /\ invocations' = invocations + 1
    /\ procs' = [procs EXCEPT ![p] =
          IF ~dirExists \/ all_json_files(files) = {}
          THEN Ends(Idle, "returned", EmptyFrame)
          ELSE [Idle EXCEPT !.pc = "scanned", !.all_json_files = all_json_files(files)]]
    /\ UNCHANGED <<envVars, Others>>

\* lines 203-216, 228
ReadCache(p) ==
    /\ procs[p].pc = "scanned"
    /\ \E cached \in {_load_cache(cache)}, local \in {procs[p]} :
       procs' = [procs EXCEPT ![p] =
          IF cached.found /\ ~empty(cached.df)
          THEN IF "source_file" \notin cached.df.columns
               THEN Ends(local, "raised", EmptyFrame)
               ELSE IF new_files(local.all_json_files, cached_files(cached.df)) = {}
               THEN Ends([local EXCEPT !.cached_df = cached.df, !.df = cached.df],
                         "returned",
                         sort_values(drop(cached.df, "source_file")))
               ELSE [local EXCEPT !.pc = "read", !.cached_df = cached.df,
                                  !.submitted = new_files(local.all_json_files,
                                                          cached_files(cached.df))]
          ELSE [local EXCEPT !.pc = "read", !.submitted = local.all_json_files]]
    /\ UNCHANGED <<envVars, invocations, Others>>

\* lines 219-237: the pool reads the submitted files as they are now
ParseFiles(p, order) ==
    /\ procs[p].pc = "read"
    /\ \E loaded \in {_load_json_files_parallel(order, files)}, local \in {procs[p]} :
       procs' = [procs EXCEPT ![p] =
             IF loaded.tag = "raise" THEN Ends(local, "raised", EmptyFrame)
             ELSE IF empty(local.cached_df) /\ loaded.records = <<>>
             THEN Ends(local, "returned", EmptyFrame)
             ELSE [local EXCEPT !.pc = "parsed", !.records = loaded.records,
                      !.df = sort_values(
                                IF empty(local.cached_df) THEN DataFrame(loaded.records)
                                ELSE IF loaded.records # <<>>
                                THEN concat(local.cached_df, DataFrame(loaded.records))
                                ELSE local.cached_df)]]
    /\ UNCHANGED <<envVars, invocations, Others>>

\* line 238, df.to_parquet: it raises before the file is touched, or it opens
\* the file, which truncates it under any other writer.
BeginWrite(p, opened) ==
    /\ procs[p].pc = "parsed"
    /\ IF opened
       THEN /\ cache' = Corrupt
            /\ procs' = [q \in Procs |->
                  IF q = p
                  THEN [procs[p] EXCEPT !.pc = "writing",
                           !.overlapped = \E r \in Procs : procs[r].pc = "writing"]
                  ELSE IF procs[q].pc = "writing"
                  THEN [procs[q] EXCEPT !.overlapped = TRUE]
                  ELSE procs[q]]
       ELSE /\ cache' = cache
            /\ procs' = [procs EXCEPT ![p] =
                  Ends(procs[p], "returned", drop(procs[p].df, "source_file"))]
    /\ UNCHANGED <<dirExists, files, invocations, Others>>

\* The write ends and load_all_data returns (line 241).  The file holds the
\* frame, or is unreadable; after a write that overlapped another it may
\* also hold what the other writer left.
EndWrite(p, left) ==
    /\ procs[p].pc = "writing"
    /\ left \in {"written", "truncated"} \cup
                (IF procs[p].overlapped THEN {"untouched"} ELSE {})
    /\ cache' = IF left = "written" THEN Parquet(procs[p].df)
                ELSE IF left = "truncated" THEN Corrupt
                ELSE cache
    /\ procs' = [procs EXCEPT ![p] =
          Ends(procs[p], "returned", drop(procs[p].df, "source_file"))]
    /\ UNCHANGED <<dirExists, files, invocations, Others>>

\* The caller takes the result; the next invocation can start.
Finish(p) ==
    /\ procs[p].pc = "done"
    /\ invocations < MaxInvocations
    /\ procs' = [procs EXCEPT ![p] = Idle]
    /\ UNCHANGED <<envVars, invocations, Others>>

InitConc ==
    /\ dirExists = TRUE
    /\ files = NoFiles
    /\ cache = Absent
    /\ pre = Absent
    /\ ret = NoCall
    /\ ParseIdle
    /\ MemoIdle
    /\ AggIdle
    /\ ConcIdle

NextConc ==
    \/ \E n \in Names : \E content \in ContentsOf(n) : AddFile(n, content)
    \/ \E p \in Procs : Scan(p)
    \/ \E p \in Procs : ReadCache(p)
    \/ \E p \in Procs : \E order \in CompletionOrders(procs[p].submitted) :
          ParseFiles(p, order)
    \/ \E p \in Procs, opened \in BOOLEAN : BeginWrite(p, opened)
    \/ \E p \in Procs, left \in {"written", "truncated", "untouched"} : EndWrite(p, left)
    \/ \E p \in Procs : Finish(p)

SpecConc == InitConc /\ [][NextConc]_vars

----------------------------------------------------------------------------
(* Properties of the loader.  While ret.outcome # "none" the last call is  *)
(* observed: pre is the cache it found, files and dirExists the directory  *)
(* it found, cache the cache it left, ret what it did.                     *)

Called == ret.outcome # "none"
Present == {n \in Names : files[n] # Missing}
NonEmptyCache(c) ==
    c.kind = "parquet" /\ Len(c.frame.rows) > 0 /\ "source_file" \in c.frame.columns
SourceIds(c) == {c.frame.rows[i].source_file : i \in 1..Len(c.frame.rows)}
\* The file under name n is a successful measurement whose name decodes.
ParsesOk(n) ==
    /\ files[n].text = "object" /\ files[n].success /\ files[n].result
    /\ FileTimestamp[n] # None
\* The record of file n as the consumer sees it, and as the cache holds it.
PublicRow(n) ==
    [timestamp |-> FileTimestamp[n], sessionID |-> files[n].sessionID,
     download |-> files[n].download \div 1000000]
CacheRow(n) ==
    [timestamp |-> FileTimestamp[n], source_file |-> n,
     sessionID |-> files[n].sessionID, download |-> files[n].download \div 1000000]
Ascending(rows) ==
    \A i, j \in 1..Len(rows) : i < j => TsLeq(rows[i].timestamp, rows[j].timestamp)
NoSourceColumn(df) ==
    /\ "source_file" \notin df.columns
    /\ \A i \in 1..Len(df.rows) : "source_file" \notin DOMAIN df.rows[i]

\* C1: every dataset load_all_data returns is sorted ascending by timestamp
\* and has no source_file column, whichever return path produced it.
C1_SortedWithoutSource ==
    ret.outcome = "returned" => Ascending(ret.result.rows) /\ NoSourceColumn(ret.result)

\* A merge that put a new, earlier record before the cached one.
C1_Witness ==
    /\ ret.outcome = "returned"
    /\ ret.path = "merged"
    /\ Len(ret.result.rows) >= 2
    /\ \E n \in ret.parsed : ParsesOk(n) /\ PublicRow(n) = ret.result.rows[1]

\* C2: no call of load_all_data ends with an exception.
C2_NoErrorPropagates == ret.outcome # "raised"

\* "No new files" in the sense of the loader: nothing matches, or a non-empty
\* cache names every matching file.
NoNewFiles ==
    \/ ~dirExists
    \/ Present = {}
    \/ NonEmptyCache(pre) /\ Present \subseteq SourceIds(pre)

NewNames == Present \ SourceIds(pre)

\* C4: with a non-empty cache and new files in the directory, a reload parses
\* exactly the new files and returns (and caches) the cached rows plus one row
\* per new file that parses; a corrupt new file adds nothing and stays new.
C4_ReloadAddsOneRowPerNewFile ==
    (Called /\ dirExists /\ NonEmptyCache(pre) /\ NewNames # {})
        => /\ ret.outcome = "returned"
           /\ ret.parsed = NewNames
           /\ Len(ret.result.rows)
                = Len(pre.frame.rows) + Cardinality({n \in NewNames : ParsesOk(n)})
           /\ ret.save = "written"
                => /\ Len(cache.frame.rows) = Len(ret.result.rows)
                   /\ SourceIds(cache)
                        = SourceIds(pre) \cup {n \in NewNames : ParsesOk(n)}

\* The same for the reloads that return.
C4_WhenReturned ==
    (ret.outcome = "returned" /\ dirExists /\ NonEmptyCache(pre) /\ NewNames # {})
        => /\ ret.parsed = NewNames
           /\ Len(ret.result.rows)
                = Len(pre.frame.rows) + Cardinality({n \in NewNames : ParsesOk(n)})
           /\ \A n \in NewNames : ParsesOk(n) => PublicRow(n) \in Range(ret.result.rows)
           /\ ret.save = "written"
                => /\ Len(cache.frame.rows) = Len(ret.result.rows)
                   /\ SourceIds(cache)
                        = SourceIds(pre) \cup {n \in NewNames : ParsesOk(n)}

ColdStart ==
    /\ dirExists
    /\ Present # {}
    /\ pre.kind \in {"absent", "corrupt"} \/ Len(pre.frame.rows) = 0
FirstLoad(df, rowOf(_)) ==
    /\ Range(df.rows) = {rowOf(n) : n \in {m \in Present : ParsesOk(m)}}
    /\ Len(df.rows) = Cardinality({m \in Present : ParsesOk(m)})
    /\ Ascending(df.rows)

\* C5: with the cache absent, unreadable or empty, load_all_data raises
\* nothing, parses every file, returns what a first load returns and writes
\* it to the cache; with zero records it returns empty and writes nothing.
C5_ColdStart ==
    (Called /\ ColdStart)
        => /\ ret.outcome = "returned"
           /\ ret.parsed = Present
           /\ FirstLoad(ret.result, PublicRow)
           /\ ret.result.rows = <<>> => ret.save = "none" /\ cache = pre
           /\ ret.result.rows # <<>> => ret.save # "none"
           /\ ret.save = "written" => FirstLoad(cache.frame, CacheRow)

C5_WhenReturned ==
    (ret.outcome = "returned" /\ ColdStart)
        => /\ ret.parsed = Present
           /\ FirstLoad(ret.result, PublicRow)
           /\ ret.result.rows = <<>> => ret.save = "none" /\ cache = pre
           /\ ret.result.rows # <<>> => ret.save # "none"
           /\ ret.save = "written" => FirstLoad(cache.frame, CacheRow)

PublicOf(row) == [c \in (DOMAIN row) \ {"source_file"} |-> row[c]]

\* C10: a record in a non-empty readable cache is returned unchanged by every
\* call that finds the directory with a matching file, whatever became of the
\* file since, and stays cached; without a matching file the result is empty.
C10_CachedRecordsAreKept ==
    Called =>
        IF dirExists /\ Present # {}
        THEN NonEmptyCache(pre)
                => /\ ret.outcome = "returned"
                   /\ \A i \in 1..Len(pre.frame.rows) :
                         PublicOf(pre.frame.rows[i]) \in Range(ret.result.rows)
                   /\ ret.save \in {"none", "written"}
                        => Range(pre.frame.rows) \subseteq Range(cache.frame.rows)
        ELSE ret.outcome = "returned" /\ ret.result = EmptyFrame

C10_WhenReturned ==
    ret.outcome = "returned" =>
        IF dirExists /\ Present # {}
        THEN NonEmptyCache(pre)
                => /\ \A i \in 1..Len(pre.frame.rows) :
                         PublicOf(pre.frame.rows[i]) \in Range(ret.result.rows)
                   /\ ret.save \in {"none", "written"}
                        => Range(pre.frame.rows) \subseteq Range(cache.frame.rows)
        ELSE ret.result = EmptyFrame

----------------------------------------------------------------------------
(* parse_timestamp_from_filename on its own: the filenames are the name     *)
(* speedtest-2024-02-29T23-59-59-999Z.json and every name that differs     *)
(* from it in at most MaxFaults of its segments.                           *)

MaxFaults == 2

SegBase ==
    <<<<"s", "p", "e", "e", "d", "t", "e", "s", "t", "-">>,
      <<"2", "0", "2", "4">>,
      <<"-">>,
      <<"0", "2">>,
      <<"-">>,
      <<"2", "9">>,
      <<"T">>,
      <<"2", "3">>,
      <<"-">>,
      <<"5", "9">>,
      <<"-">>,
      <<"5", "9">>,
      <<"-">>,
      <<"9", "9", "9">>,
      <<"Z">>,
      <<".", "j", "s", "o", "n">>,
      <<>>>>
SegAlts ==
    <<{<<"s", "p", "e", "e", "d", "t", "e", "s", "t", "_">>, <<"r", "e", "s", "u", "l", "t", "-">>, <<>>},
      {<<"2", "0", "2", "3">>, <<"0", "0", "0", "0">>, <<"2", "4">>, <<"2", "0", "x", "4">>},
      {<<"_">>},
      {<<"1", "2">>, <<"1", "3">>, <<"0", "0">>, <<"2">>},
      {},
      {<<"3", "0">>, <<"3", "1">>, <<"0", "0">>, <<"9">>},
      {<<"t">>, <<"_">>},
      {<<"2", "4">>, <<"7">>},
      {<<":">>},
      {<<"6", "0">>},
      {},
      {<<"6", "0">>},
      {<<".">>},
      {<<"9", "9">>, <<"9", "9", "9", "9">>},
      {<<"z">>, <<>>},
      {<<".", "t", "x", "t">>, <<"j", "s", "o", "n">>, <<".", "j", "s", "o">>},
      {<<".", "b", "a", "k">>, <<"x">>, <<".", "j", "s", "o", "n">>}>>

RECURSIVE NamesFrom(_, _)
NamesFrom(i, faults) ==
    IF i > Len(SegBase) THEN {<<>>}
    ELSE {SegBase[i] \o rest : rest \in NamesFrom(i + 1, faults)}
         \cup (IF faults = 0 THEN {}
               ELSE {alt \o rest : alt \in SegAlts[i],
                                  rest \in NamesFrom(i + 1, faults - 1)})
Filenames == NamesFrom(1, MaxFaults)

InitParse ==
    /\ InitLoader
    /\ MemoIdle
    /\ AggIdle
    /\ ConcIdle
    /\ filename \in Filenames
    /\ parsed_ts = [done |-> FALSE, value |-> None]

ParseFilename ==
    /\ ~parsed_ts.done
    /\ parsed_ts' = [done |-> TRUE, value |-> parse_timestamp_from_filename(filename)]
    /\ UNCHANGED <<filename, loaderVars, memoVars, aggVars, concVars>>

NextFilename ==
    /\ parsed_ts.done
    /\ filename' \in Filenames
    /\ parsed_ts' = [done |-> FALSE, value |-> None]
    /\ UNCHANGED <<loaderVars, memoVars, aggVars, concVars>>

NextParse == ParseFilename \/ NextFilename
SpecParse == InitParse /\ [][NextParse]_vars

\* The name the measurement writer gives the instant t: the ISO 8601 text
\* with ":" and "." replaced by "-", every field zero-padded.
RECURSIVE Padded(_, _)
Padded(n, width) ==
    IF width = 0 THEN <<>>
    ELSE Append(Padded(n \div 10, width - 1), DigitChars[(n % 10) + 1])
NameOf(t) ==
    <<"s", "p", "e", "e", "d", "t", "e", "s", "t", "-">>
    \o Padded(t[1], 4) \o <<"-">> \o Padded(t[2], 2) \o <<"-">> \o Padded(t[3], 2)
    \o <<"T">> \o Padded(t[4], 2) \o <<"-">> \o Padded(t[5], 2)
    \o <<"-">> \o Padded(t[6], 2) \o <<"-">> \o Padded(t[7], 3)
    \o <<"Z", ".", "j", "s", "o", "n">>
\* The instants whose fields occur in Filenames.
Instants ==
    {t \in {2023, 2024, 24} \X {2, 12} \X {9, 29, 30, 31} \X {7, 23} \X {59}
           \X {59} \X {99, 999} : t[3] <= DaysInMonth(t[1], t[2])}
WellFormed(name) == \E t \in Instants : name = NameOf(t)

\* C8: a filename that is not of the shape
\* speedtest-<YYYY-MM-DD>T<HH>-<MM>-<SS>-<mmm>Z.json yields no timestamp.
C8_MalformedNameYieldsNone ==
    (parsed_ts.done /\ ~WellFormed(filename)) => parsed_ts.value = None

\* The same for the names with no text after the extension.
C8_AnchoredNames ==
    (parsed_ts.done /\ ~WellFormed(filename) /\ Len(filename) <= Len(pattern))
        => parsed_ts.value = None
\* Decoding a well-formed name gives back the instant it encodes.
C8_RoundTrip ==
    \A t \in Instants :
        (parsed_ts.done /\ filename = NameOf(t)) => parsed_ts.value = t
C8_RoundTripWitness == parsed_ts.done /\ WellFormed(filename)

----------------------------------------------------------------------------
(* The memoization of load_all_data by @st.cache_data(ttl=...), line 182,  *)
(* for calls made one after the other: the entry stored by one run of the  *)
(* body answers every call made less than ttl seconds later.               *)

MaxRefresh == 12
MaxClock == 16

\* The ttl without its floor of 5 seconds.
ttl_without_floor(refresh) == refresh - 5
\* ttl=max(REFRESH_INTERVAL_SECONDS - 5, 5)
ttl(refresh) == IF refresh - 5 > 5 THEN refresh - 5 ELSE 5

\* The entry is served until ttl seconds have passed since it was stored.
Fresh(entry, now, refresh) == entry.stored /\ now - entry.at < ttl(refresh)

\* The directory holds one measurement and nothing is cached yet.
InitMemo ==
    /\ dirExists = TRUE
    /\ files = [NoFiles EXCEPT ![2] = Object(TRUE, TRUE, "s1", 50000000)]
    /\ cache = Absent
    /\ pre = Absent
    /\ ret = NoCall
    /\ ParseIdle
    /\ AggIdle
    /\ ConcIdle
    /\ REFRESH_INTERVAL_SECONDS \in 0..MaxRefresh
    /\ clock = 0
    /\ memo = NoEntry
    /\ runs = NoRuns

Tick ==
    /\ clock < MaxClock
    /\ clock' = clock + 1
    /\ UNCHANGED <<REFRESH_INTERVAL_SECONDS, memo, runs, loaderVars, parseVars,
                   aggVars, concVars>>

\* A call answered from the entry: the body does not run.
CallServed ==
    /\ Fresh(memo, clock, REFRESH_INTERVAL_SECONDS)
    /\ UNCHANGED vars

\* A call that runs the body and stores what it returns.
CallRunsBody ==
    /\ ~Fresh(memo, clock, REFRESH_INTERVAL_SECONDS)
    /\ \E order \in CompletionOrders(Submitted(dirExists, files, cache)) :
          RunBody(order)
    /\ ret'.outcome = "returned"
    /\ memo' = [stored |-> TRUE, at |-> clock, value |-> ret'.result]
    /\ runs' = [count |-> IF runs.count < 2 THEN runs.count + 1 ELSE 2,
                last |-> clock, before |-> runs.last]
    /\ UNCHANGED <<REFRESH_INTERVAL_SECONDS, clock, parseVars, aggVars, concVars>>

NextMemo == Tick \/ CallServed \/ CallRunsBody
SpecMemo == InitMemo /\ [][NextMemo]_vars

----------------------------------------------------------------------------
(* aggregate_to_intervals.                                                 *)

\* Minutes from the epoch 1970-01-01T00:00Z to the start of a civil day, and
\* back: what a pandas Timestamp counts in.
DaysFromCivil(y, m, d) ==
    LET yy == IF m <= 2 THEN y - 1 ELSE y
        era == yy \div 400
        yoe == yy - era * 400
        doy == (153 * (IF m > 2 THEN m - 3 ELSE m + 9) + 2) \div 5 + d - 1
        doe == yoe * 365 + yoe \div 4 - yoe \div 100 + doy
    IN  era * 146097 + doe - 719468
CivilFromDays(z) ==
    LET zz == z + 719468
        era == zz \div 146097
        doe == zz - era * 146097
        yoe == (doe - doe \div 1460 + doe \div 36524 - doe \div 146096) \div 365
        doy == doe - (365 * yoe + yoe \div 4 - yoe \div 100)
        mp == (5 * doy + 2) \div 153
        d == doy - (153 * mp + 2) \div 5 + 1
        m == IF mp < 10 THEN mp + 3 ELSE mp - 9
    IN  <<IF m <= 2 THEN yoe + era * 400 + 1 ELSE yoe + era * 400, m, d>>
EpochMinutes(t) == DaysFromCivil(t[1], t[2], t[3]) * 1440 + t[4] * 60 + t[5]
InstantOfMinutes(n) ==
    CivilFromDays(n \div 1440) \o <<(n % 1440) \div 60, n % 60, 0, 0>>

\* Series.dt.floor(f"{interval_minutes}min"): the last multiple of the width,
\* counted from the epoch, that is not after the instant.
floor(t, width) == InstantOfMinutes(EpochMinutes(t) - (EpochMinutes(t) % width))

\* The keys of METRICS (lines 29-70).
METRICS == {"download", "upload", "latency", "jitter", "downLoadedLatency",
            "downLoadedJitter", "upLoadedLatency", "upLoadedJitter"}

\* A cell that holds no value, and a cell that holds v.
NaN == <<>>
Cell(v) == <<v>>

\* "mean" of a group's column: NaN cells are skipped; the mean of the rest is
\* kept exact, as <<sum, count>>.
RECURSIVE Total(_)
Total(cells) == IF cells = <<>> THEN 0 ELSE Head(cells)[1] + Total(Tail(cells))
\* A mean that counts the NaN cells as zeros.
mean_counting_missing(cells) ==
    IF cells = <<>> THEN NaN
    ELSE <<Total(SelectSeq(cells, LAMBDA c : c # NaN)), Len(cells)>>
mean(cells) ==
    LET held == SelectSeq(cells, LAMBDA c : c # NaN)
    IN  IF held = <<>> THEN NaN ELSE <<Total(held), Len(held)>>

\* df.groupby("interval").agg(agg_dict).reset_index(): one row per key, keys
\* ascending.
RECURSIVE GroupKeys(_)
GroupKeys(rows) ==
    IF rows = <<>> THEN <<>>
    ELSE LET before == GroupKeys(SubSeq(rows, 1, Len(rows) - 1))
             key == rows[Len(rows)].interval
         IN  IF \E i \in 1..Len(before) : before[i].timestamp = key THEN before
             ELSE InsertSorted([timestamp |-> key], before)
groupby_agg(rows, metric_cols) ==
    LET keys == GroupKeys(rows)
    IN  [k \in 1..Len(keys) |->
           [c \in {"interval"} \cup metric_cols |->
              IF c = "interval" THEN keys[k].timestamp
              ELSE LET group == SelectSeq(rows, LAMBDA r : r.interval = keys[k].timestamp)
                   IN  mean([i \in 1..Len(group) |-> group[i][c]])]]

aggregate_to_intervals(df, width) ==
    IF empty(df) THEN df
    ELSE LET rows == [i \in 1..Len(df.rows) |->
                        [c \in df.columns \cup {"interval"} |->
                           IF c = "interval" THEN floor(df.rows[i].timestamp, width)
                           ELSE df.rows[i][c]]]
             metric_cols == {col \in df.columns : col \in METRICS}
             grouped == groupby_agg(rows, metric_cols)
             renamed == [i \in 1..Len(grouped) |->
                           [c \in {"timestamp"} \cup metric_cols |->
                              IF c = "timestamp" THEN grouped[i].interval
                              ELSE grouped[i][c]]]
         IN  sort_values([columns |-> {"timestamp"} \cup metric_cols, rows |-> renamed])

MaxRows == 3
AggInstants ==
    {<<2024, 1, 15, 10, 0, 0, 0>>, <<2024, 1, 15, 10, 1, 0, 0>>,
     <<2024, 1, 15, 10, 11, 0, 0>>, <<2024, 1, 15, 10, 21, 0, 0>>,
     <<2024, 1, 15, 0, 0, 30, 500>>}
Widths == {1, 7, 10}
\* What a record holds of the metrics: either one may be missing.
AggMetrics ==
    {<<NaN, Cell(5)>>, <<Cell(10), NaN>>, <<Cell(10), Cell(5)>>, <<Cell(30), Cell(5)>>}
AggRows ==
    {[timestamp |-> t, sessionID |-> "s1", download |-> m[1], latency |-> m[2]] :
        t \in AggInstants, m \in AggMetrics}
\* pd.DataFrame(records) has the columns some record has.
FrameOf(rows) ==
    LET cols == {"timestamp", "sessionID"}
                \cup {m \in {"download", "latency"} :
                        \E i \in 1..Len(rows) : rows[i][m] # NaN}
    IN  [columns |-> cols,
         rows |-> [i \in 1..Len(rows) |-> [c \in cols |-> rows[i][c]]]]
\* Four records at 10:00, 10:01, 10:11 and 10:21.
FourRecords ==
    <<[timestamp |-> <<2024, 1, 15, 10, 0, 0, 0>>, sessionID |-> "s1",
       download |-> Cell(10), latency |-> Cell(5)],
      [timestamp |-> <<2024, 1, 15, 10, 1, 0, 0>>, sessionID |-> "s1",
       download |-> Cell(30), latency |-> NaN],
      [timestamp |-> <<2024, 1, 15, 10, 11, 0, 0>>, sessionID |-> "s1",
       download |-> Cell(10), latency |-> Cell(5)],
      [timestamp |-> <<2024, 1, 15, 10, 21, 0, 0>>, sessionID |-> "s1",
       download |-> Cell(30), latency |-> Cell(5)]>>
\* The datasets load_all_data can return: ascending, with a metric column
\* unless empty.
Datasets ==
    {EmptyFrame, FrameOf(FourRecords)}
    \cup {FrameOf(rows) : rows \in
            {r \in UNION {[1..n -> AggRows] : n \in 1..MaxRows} :
                \A i \in 1..(Len(r) - 1) : TsLeq(r[i].timestamp, r[i + 1].timestamp)}}

InitAgg ==
    /\ InitLoader
    /\ ParseIdle
    /\ MemoIdle
    /\ ConcIdle
    /\ df_in \in Datasets
    /\ interval_minutes \in Widths
    /\ agg = [done |-> FALSE, df |-> EmptyFrame]

Aggregate ==
    /\ ~agg.done
    /\ agg' = [done |-> TRUE, df |-> aggregate_to_intervals(df_in, interval_minutes)]
    /\ UNCHANGED <<df_in, interval_minutes, loaderVars, parseVars, memoVars, concVars>>

NextAgg == Aggregate
SpecAgg == InitAgg /\ [][NextAgg]_vars

\* The bucket that starts at b holds the instant t.
InBucket(t, b, width) ==
    /\ EpochMinutes(b) % width = 0
    /\ b[6] = 0 /\ b[7] = 0
    /\ EpochMinutes(b) <= EpochMinutes(t)
    /\ EpochMinutes(t) < EpochMinutes(b) + width
RECURSIVE SumOver(_, _)
SumOver(S, rows_m) ==
    IF S = {} THEN 0
    ELSE LET j == CHOOSE x \in S : TRUE IN rows_m[j][1] + SumOver(S \ {j}, rows_m)

----------------------------------------------------------------------------
(* Properties of concurrent invocations.                                   *)

Quiescent == \A p \in Procs : procs[p].pc \in {"idle", "done"}
\* The rows of a finished invocation are its cached rows plus the records of
\* its new files, one per source identifier.
OneRowPerFile(local) ==
    /\ Len(local.result.rows) = Len(local.cached_df.rows) + Len(local.records)
    /\ Range(local.df.rows) = Range(local.cached_df.rows) \cup Range(local.records)
    /\ Cardinality({local.df.rows[i].source_file : i \in 1..Len(local.df.rows)})
          = Len(local.df.rows)
    /\ local.result = drop(local.df, "source_file")
\* The cache is unreadable, or holds one record per source identifier, each of
\* them a record load_single_file builds from a file under that name.
CacheSound ==
    cache.kind = "parquet" =>
        /\ Cardinality(SourceIds(cache)) = Len(cache.frame.rows)
        /\ \A i \in 1..Len(cache.frame.rows) :
              \E content \in ContentsOf(cache.frame.rows[i].source_file) :
                 LET one == load_single_file(cache.frame.rows[i].source_file, content)
                 IN  one.tag = "return" /\ one.record = cache.frame.rows[i]

\* C6: in every interleaving of two invocations of load_all_data, each
\* invocation returns a dataset with exactly one row per successfully parsed
\* file it considered (cached rows plus new files, no duplicates), and the
\* cache left when both have finished has at most one record per source
\* identifier, all from files that parsed successfully.
C6_ConcurrentInvocationsAreSafe ==
    /\ \A p \in Procs : procs[p].pc = "done" =>
          procs[p].outcome = "returned" /\ OneRowPerFile(procs[p])
    /\ Quiescent => CacheSound

\* C6 for the invocations that return, and for the cache at every moment.
C6_WhenReturned ==
    /\ \A p \in Procs : (procs[p].pc = "done" /\ procs[p].outcome = "returned") =>
          OneRowPerFile(procs[p])
    /\ CacheSound

\* Two invocations overlapped in writing the cache, both returned rows, and
\* the cache holds records.
C6_OverlappingWritesReached ==
    /\ \A p \in Procs : /\ procs[p].pc = "done"
                        /\ procs[p].overlapped
                        /\ Len(procs[p].result.rows) > 0
    /\ cache.kind = "parquet"
    /\ Len(cache.frame.rows) > 1

============================================================================
